---- MODULE Spec2Model ----
(***************************************************************************)
(* Model of src/lambda_function.py: one invocation of lambda_handler, from *)
(* the event and context it is given to the response it returns, with the  *)
(* temporary file system and the S3 bucket it acts on.                     *)
(*                                                                         *)
(* A Python str that the code only trims, measures, scans for letters and  *)
(* splits is kept as its sequence of maximal runs of one character class   *)
(* ("space", "alpha", "digit"), each with its length, so that texts of     *)
(* 50000 characters are values the model can hold.                         *)
(***************************************************************************)
EXTENDS Integers, Sequences, FiniteSets, TLC

\* ------------------------------------------------------------ constants
MAX_TEXT_LENGTH == 50000
MIN_TEXT_LENGTH == 10

\* ---------------------------------------------------------------- bounds
\* The longest text, in runs of one character class.
MaxRuns == 3
\* The lengths a run may have: they reach both sides of both length limits.
RunLens == {1, 9, 50000}
CharClasses == {"space", "alpha", "digit"}

\* ------------------------------------------------------------ Python str
Run(c, n) == [cls |-> c, n |-> n]

RECURSIVE TextsUpTo(_)
TextsUpTo(k) ==
    IF k = 0 THEN {<<>>}
    ELSE LET shorter == TextsUpTo(k - 1)
         IN  shorter \cup
             { Append(t, Run(c, n)) :
                 t \in {s \in shorter : Len(s) = k - 1},
                 c \in CharClasses, n \in RunLens }

\* The texts of the model: adjacent runs differ in class (runs are maximal).
Texts ==
    { t \in TextsUpTo(MaxRuns) :
        \A i \in 1..(Len(t) - 1) : t[i].cls # t[i + 1].cls }

\* len(s)
RECURSIVE str_len(_)
str_len(s) == IF s = <<>> THEN 0 ELSE s[1].n + str_len(Tail(s))

RECURSIVE str_lstrip(_)
str_lstrip(s) ==
    IF s # <<>> /\ s[1].cls = "space" THEN str_lstrip(Tail(s)) ELSE s

RECURSIVE str_rstrip(_)
str_rstrip(s) ==
    IF s # <<>> /\ s[Len(s)].cls = "space"
    THEN str_rstrip(SubSeq(s, 1, Len(s) - 1))
    ELSE s

\* s.strip()
str_strip(s) == str_rstrip(str_lstrip(s))

\* any(c.isalpha() for c in s)
any_isalpha(s) == \E i \in 1..Len(s) : s[i].cls = "alpha"

\* len(s.split()): a scan that opens a token at each character that is not
\* whitespace and follows whitespace or the start of the string.
RECURSIVE split_scan(_, _)
split_scan(s, in_token) ==
    IF s = <<>> THEN 0
    ELSE IF s[1].cls = "space" THEN split_scan(Tail(s), FALSE)
    ELSE (IF in_token THEN 0 ELSE 1) + split_scan(Tail(s), TRUE)

len_split(s) == split_scan(s, FALSE)

\* --------------------------------------------------------- Python values
NoneStr == "<None>"
PyNone == [type |-> "NoneType"]
PyList == [type |-> "list"]
PyInt == [type |-> "int"]
PyStr(s) == [type |-> "str", runs |-> s]
PyDict(items) == [type |-> "dict", items |-> items]
Unbound == [type |-> "unbound"]

\* d.get(key, default) on a dict kept as its sequence of <<key, value>> items
dict_get(d, key, default) ==
    IF \E i \in 1..Len(d.items) : d.items[i][1] = key
    THEN d.items[CHOOSE i \in 1..Len(d.items) : d.items[i][1] = key][2]
    ELSE default

\* A str holding a JSON document is kept as what the document denotes, or
\* as malformed.
JsonText(v) == [type |-> "str", doc |-> [ok |-> TRUE, value |-> v]]
MalformedJson == [type |-> "str", doc |-> [ok |-> FALSE]]

\* Exceptions, with the base classes the handler's except clauses test.
Exc(type, msg) == [type |-> type, msg |-> msg]
NoExc == Exc("none", "")
IsValueError(e) == e.type \in {"ValueError", "JSONDecodeError"}

\* json.loads(s)
json_loads(s) ==
    IF s.doc.ok
    THEN [raised |-> FALSE, value |-> s.doc.value, exc |-> NoExc]
    ELSE [raised |-> TRUE, value |-> Unbound,
          exc |-> Exc("JSONDecodeError", "Expecting value")]

\* json.dumps(d) of a flat dict: the members of the JSON object, in order.
json_dumps(d) == [json |-> "object", members |-> d]

\* -------------------------------------------------------------- inputs
BucketNames == {NoneStr, "", "wc-bucket"}
RegionNames == {NoneStr, "eu-west-1"}
RequestIds == {"req-1", "req-2"}
HttpMethods == {"OPTIONS", "POST"}
Absent == [type |-> "absent"]

TextValues == {PyStr(t) : t \in Texts} \cup {PyNone, PyInt}
Dicts == {PyDict(<<>>)} \cup {PyDict(<< <<"text", v>> >>) : v \in TextValues}
JsonValues == Dicts \cup {PyList, PyNone}
Bodies ==
    {Absent, MalformedJson} \cup JsonValues \cup {JsonText(v) : v \in JsonValues}
Events == [httpMethod : HttpMethods \cup {NoneStr}, body : Bodies]

\* event.get('httpMethod') and 'body' in event
event_get_httpMethod(ev) == ev.httpMethod
has_body(ev) == ev.body # Absent

\* ---------------------------------------------------------------- state
VARIABLES
    bucket_name,     \* os.environ.get('BUCKET_NAME')
    region_name,     \* s3.meta.region_name
    event,           \* the API Gateway event
    aws_request_id,  \* context.aws_request_id, NoneStr when context has none
    pc,              \* the handler's position
    body,            \* the parsed body
    is_valid, error_msg, text,   \* validate_input's result
    image_path,      \* the handler's image_path
    s3_url,          \* upload_to_s3's result
    exc,             \* the exception being propagated
    response,        \* the value the handler returns
    files,           \* the temporary files that exist
    s3_objects,      \* the keys stored in the bucket
    calls,           \* the pipeline functions invoked, in order
    warnings         \* logger.warning records of cleanup_temp_file

vars == <<bucket_name, region_name, event, aws_request_id, pc, body, is_valid,
          error_msg, text, image_path, s3_url, exc, response, files,
          s3_objects, calls, warnings>>

inputs == <<bucket_name, region_name, event, aws_request_id>>

NoResponse == [statusCode |-> 0, body |-> json_dumps(<<>>), headers |-> {}]

\* The state lambda_handler starts in, for a context drawn from contexts.
InitWith(contexts) ==
    /\ bucket_name \in BucketNames
    /\ region_name \in RegionNames
    /\ event \in Events
    /\ aws_request_id \in contexts
    /\ pc = "validate_environment"
    /\ body = Unbound
    /\ is_valid = FALSE
    /\ error_msg = ""
    /\ text = <<>>
    /\ image_path = NoneStr
    /\ s3_url = NoneStr
    /\ exc = NoExc
    /\ response = NoResponse
    /\ files = {}
    /\ s3_objects = {}
    /\ calls = <<>>
    /\ warnings = 0

\* The Lambda runtime's context object always carries aws_request_id.
Init == InitWith(RequestIds)

\* Any object as the context, one without aws_request_id included.
InitAnyContext == InitWith(RequestIds \cup {NoneStr})

\* ------------------------------------------------------ the functions
\* validate_environment(): the exception it raises, if any
validate_environment(bucket) ==
    IF bucket = NoneStr \/ bucket = ""
    THEN Exc("ValueError", "BUCKET_NAME environment variable is required")
    ELSE NoExc

EmptyMsg == "Text input is required and cannot be empty"
TooShortMsg ==
    "Text must be at least " \o ToString(MIN_TEXT_LENGTH) \o " characters long"
TooLongMsg ==
    "Text cannot exceed " \o ToString(MAX_TEXT_LENGTH) \o " characters"
NoAlphaMsg == "Text must contain at least some alphabetic characters"

ValidationResult(ok, msg, cleaned) ==
    [raised |-> FALSE, exc |-> NoExc,
     is_valid |-> ok, error_msg |-> msg, text |-> cleaned]
ValidationRaises(e) ==
    [raised |-> TRUE, exc |-> e, is_valid |-> FALSE, error_msg |-> "", text |-> <<>>]

\* validate_input with the minimum length test off by one (<= for <).
validate_input_min_inclusive(b) ==
    IF b.type # "dict"
    THEN ValidationRaises(Exc("AttributeError", "object has no attribute 'get'"))
    ELSE LET v == dict_get(b, "text", PyStr(<<>>)) IN
         IF v.type # "str"
         THEN ValidationRaises(Exc("AttributeError", "object has no attribute 'strip'"))
         ELSE LET t == str_strip(v.runs) IN
              IF t = <<>> THEN ValidationResult(FALSE, EmptyMsg, <<>>)
              ELSE IF str_len(t) <= MIN_TEXT_LENGTH
                   THEN ValidationResult(FALSE, TooShortMsg, <<>>)
              ELSE IF str_len(t) > MAX_TEXT_LENGTH
                   THEN ValidationResult(FALSE, TooLongMsg, <<>>)
              ELSE IF ~any_isalpha(t)
                   THEN ValidationResult(FALSE, NoAlphaMsg, <<>>)
              ELSE ValidationResult(TRUE, "", t)

\* validate_input(body): (is_valid, error_message, cleaned_text), or the
\* AttributeError of body.get / .strip() on a value that has no such method
validate_input(b) ==
    IF b.type # "dict"
    THEN ValidationRaises(Exc("AttributeError", "object has no attribute 'get'"))
    ELSE LET v == dict_get(b, "text", PyStr(<<>>)) IN
         IF v.type # "str"
         THEN ValidationRaises(Exc("AttributeError", "object has no attribute 'strip'"))
         ELSE LET t == str_strip(v.runs) IN
              IF t = <<>> THEN ValidationResult(FALSE, EmptyMsg, <<>>)
              ELSE IF str_len(t) < MIN_TEXT_LENGTH
                   THEN ValidationResult(FALSE, TooShortMsg, <<>>)
              ELSE IF str_len(t) > MAX_TEXT_LENGTH
                   THEN ValidationResult(FALSE, TooLongMsg, <<>>)
              ELSE IF ~any_isalpha(t)
                   THEN ValidationResult(FALSE, NoAlphaMsg, <<>>)
              ELSE ValidationResult(TRUE, "", t)

\* The name tempfile.NamedTemporaryFile(suffix='.png', delete=False) gives.
TmpName == "/tmp/tmpwordcloud.png"

\* What the rendering library and the file system can do to one call of
\* generate_wordcloud.
RenderExceptions ==
    {Exc("ValueError", "We need at least 1 word to plot a word cloud, got 0."),
     Exc("OSError", "No space left on device")}
GenerateOutcomes ==
    {[kind |-> "ok", exc |-> NoExc]}
    \cup {[kind |-> "generate_raises", exc |-> e] : e \in RenderExceptions}
    \cup {[kind |-> "tempfile_raises", exc |-> Exc("OSError", "No usable temporary directory")]}
    \cup {[kind |-> "plot_raises", exc |-> e] : e \in RenderExceptions}

\* generate_wordcloud(text): the path it returns or the exception it
\* re-raises, and the files that exist afterwards
generate_wordcloud(txt, fs, outcome) ==
    IF outcome.kind \in {"generate_raises", "tempfile_raises"}
    THEN [raised |-> TRUE, exc |-> outcome.exc, path |-> NoneStr, files |-> fs]
    ELSE IF outcome.kind = "plot_raises"
    THEN [raised |-> TRUE, exc |-> outcome.exc, path |-> NoneStr,
          files |-> fs \cup {TmpName}]
    ELSE [raised |-> FALSE, exc |-> NoExc, path |-> TmpName,
          files |-> fs \cup {TmpName}]

\* What S3 can do to one call of s3.upload_file.
UploadOutcomes ==
    {[kind |-> "ok", code |-> ""]}
    \cup {[kind |-> "client_error", code |-> c] : c \in {"AccessDenied", "NoSuchBucket"}}
    \cup {[kind |-> "other_error", code |-> ""]}

s3_key_of(request_id) == "wordclouds/wordcloud_" \o request_id \o ".png"

\* s3_url_of with the region hard-coded.
s3_url_of_fixed_region(bucket, region, key) ==
    "https://" \o bucket \o ".s3.us-east-1.amazonaws.com/" \o key

s3_url_of(bucket, region, key) ==
    "https://" \o bucket \o ".s3."
        \o (IF region = NoneStr THEN "us-east-1" ELSE region)
        \o ".amazonaws.com/" \o key

\* upload_to_s3(image_path, request_id): the URL it returns or the
\* exception it raises, and the keys the bucket holds afterwards
upload_to_s3(path, request_id, bucket, region, objects, outcome) ==
    LET s3_key == s3_key_of(request_id) IN
    IF outcome.kind = "ok"
    THEN [raised |-> FALSE, exc |-> NoExc,
          url |-> s3_url_of(bucket, region, s3_key),
          objects |-> objects \cup {s3_key}]
    ELSE IF outcome.kind = "client_error"
    THEN [raised |-> TRUE,
          exc |-> Exc("Exception", "Failed to upload image to S3: " \o outcome.code),
          url |-> NoneStr, objects |-> objects]
    ELSE [raised |-> TRUE,
          exc |-> Exc("S3UploadFailedError", "Failed to upload " \o path),
          url |-> NoneStr, objects |-> objects]

\* cleanup_temp_file without its except clause: the OSError of os.remove
\* leaves the function.
cleanup_temp_file_unguarded(file_path, fs, remove_fails) ==
    IF file_path \in fs
    THEN IF remove_fails
         THEN [files |-> fs, warned |-> FALSE, raised |-> TRUE]
         ELSE [files |-> fs \ {file_path}, warned |-> FALSE, raised |-> FALSE]
    ELSE [files |-> fs, warned |-> FALSE, raised |-> FALSE]

\* cleanup_temp_file(file_path): the files left, whether a warning was
\* logged, and whether an exception leaves the function
cleanup_temp_file(file_path, fs, remove_fails) ==
    IF file_path \in fs
    THEN IF remove_fails
         THEN [files |-> fs, warned |-> TRUE, raised |-> FALSE]
         ELSE [files |-> fs \ {file_path}, warned |-> FALSE, raised |-> FALSE]
    ELSE [files |-> fs, warned |-> FALSE, raised |-> FALSE]

CorsHeaders ==
    {<<"Access-Control-Allow-Origin", "*">>,
     <<"Access-Control-Allow-Headers", "Content-Type">>,
     <<"Access-Control-Allow-Methods", "POST, OPTIONS">>}

\* create_response(status_code, body, include_cors)
create_response(status_code, b, include_cors) ==
    [statusCode |-> status_code,
     body |-> json_dumps(b),
     headers |-> {<<"Content-Type", "application/json">>}
                 \cup (IF include_cors THEN CorsHeaders ELSE {})]

\* getattr(context, 'aws_request_id', 'unknown')
getattr_request_id(context_id) ==
    IF context_id = NoneStr THEN "unknown" ELSE context_id

\* except_response returning the exception's own text for a ValueError.
except_response_raw_text(e, context_id) ==
    IF IsValueError(e)
    THEN create_response(500, << <<"error", e.msg>> >>, TRUE)
    ELSE create_response(500, << <<"error", "Internal server error">>,
                                 <<"request_id", getattr_request_id(context_id)>> >>, TRUE)

\* The response of the handler's except clauses for exception e.
except_response(e, context_id) ==
    IF IsValueError(e)
    THEN create_response(500, << <<"error", "Service configuration error">> >>, TRUE)
    ELSE create_response(500, << <<"error", "Internal server error">>,
                                 <<"request_id", getattr_request_id(context_id)>> >>, TRUE)

\* The response of a completed pipeline.
success_response(url, request_id, txt) ==
    create_response(200, << <<"image_url", url>>,
                            <<"request_id", request_id>>,
                            <<"word_count", len_split(txt)>> >>, TRUE)

\* ------------------------------------------------- lambda_handler, by step
\* return <response> inside the try block: the finally clause runs next.
Return(r) ==
    /\ response' = r
    /\ pc' = "finally"

\* raise e inside the try block: the except clauses run next.
Raise(e) ==
    /\ exc' = e
    /\ pc' = "except"

\* The read of context.aws_request_id for the first log line, which raises
\* AttributeError on a context that has none, then validate_environment().
ValidateEnvironment ==
    /\ pc = "validate_environment"
    /\ LET e == IF aws_request_id = NoneStr
                THEN Exc("AttributeError", "object has no attribute 'aws_request_id'")
                ELSE validate_environment(bucket_name)
       IN  IF e # NoExc
           THEN Raise(e) /\ UNCHANGED response
           ELSE pc' = "preflight" /\ UNCHANGED <<exc, response>>
    /\ UNCHANGED <<inputs, body, is_valid, error_msg, text, image_path, s3_url,
                   files, s3_objects, calls, warnings>>

\* Preflight with the two tests in the other order.
Preflight_body_first ==
    /\ pc = "preflight"
    /\ IF ~has_body(event)
       THEN Return(create_response(400, << <<"error", "Missing body in request">> >>, TRUE))
       ELSE IF event_get_httpMethod(event) = "OPTIONS"
       THEN Return(create_response(200, << <<"message", "CORS preflight">> >>, TRUE))
       ELSE pc' = "parse_body" /\ UNCHANGED response
    /\ UNCHANGED <<inputs, body, is_valid, error_msg, text, image_path, s3_url,
                   exc, files, s3_objects, calls, warnings>>

\* Preflight without the test for a body: event['body'] raises KeyError.
Preflight_no_body_test ==
    /\ pc = "preflight"
    /\ IF event_get_httpMethod(event) = "OPTIONS"
       THEN Return(create_response(200, << <<"message", "CORS preflight">> >>, TRUE))
            /\ UNCHANGED exc
       ELSE IF ~has_body(event)
       THEN Raise(Exc("KeyError", "'body'")) /\ UNCHANGED response
       ELSE pc' = "parse_body" /\ UNCHANGED <<exc, response>>
    /\ UNCHANGED <<inputs, body, is_valid, error_msg, text, image_path, s3_url,
                   files, s3_objects, calls, warnings>>

\* The CORS preflight test, then the test for a body.
Preflight ==
    /\ pc = "preflight"
    /\ IF event_get_httpMethod(event) = "OPTIONS"
       THEN Return(create_response(200, << <<"message", "CORS preflight">> >>, TRUE))
       ELSE IF ~has_body(event)
       THEN Return(create_response(400, << <<"error", "Missing body in request">> >>, TRUE))
       ELSE pc' = "parse_body" /\ UNCHANGED response
    /\ UNCHANGED <<inputs, body, is_valid, error_msg, text, image_path, s3_url,
                   exc, files, s3_objects, calls, warnings>>

\* The body is decoded when it is a str and taken as it is otherwise.
ParseBody ==
    /\ pc = "parse_body"
    /\ calls' = Append(calls, "parse")
    /\ IF event.body.type = "str"
       THEN LET r == json_loads(event.body) IN
            IF r.raised
            THEN Return(create_response(400, << <<"error", "Invalid JSON format">> >>, TRUE))
                 /\ UNCHANGED body
            ELSE body' = r.value /\ pc' = "validate_input" /\ UNCHANGED response
       ELSE body' = event.body /\ pc' = "validate_input" /\ UNCHANGED response
    /\ UNCHANGED <<inputs, is_valid, error_msg, text, image_path, s3_url, exc,
                   files, s3_objects, warnings>>

\* is_valid, error_msg, text = validate_input(body), and the 400 response
ValidateInput ==
    /\ pc = "validate_input"
    /\ calls' = Append(calls, "validate")
    /\ LET r == validate_input(body) IN
       IF r.raised
       THEN Raise(r.exc) /\ UNCHANGED <<is_valid, error_msg, text, response>>
       ELSE /\ is_valid' = r.is_valid
            /\ error_msg' = r.error_msg
            /\ text' = r.text
            /\ IF ~r.is_valid
               THEN Return(create_response(400, << <<"error", r.error_msg>> >>, TRUE))
                    /\ UNCHANGED exc
               ELSE pc' = "generate_wordcloud" /\ UNCHANGED <<exc, response>>
    /\ UNCHANGED <<inputs, body, image_path, s3_url, files, s3_objects, warnings>>

\* image_path = generate_wordcloud(text)
GenerateWordcloud ==
    /\ pc = "generate_wordcloud"
    /\ calls' = Append(calls, "render")
    /\ \E outcome \in GenerateOutcomes :
         LET r == generate_wordcloud(text, files, outcome) IN
         /\ files' = r.files
         /\ IF r.raised
            THEN Raise(r.exc) /\ UNCHANGED image_path
            ELSE image_path' = r.path /\ pc' = "upload_to_s3" /\ UNCHANGED exc
    /\ UNCHANGED <<inputs, body, is_valid, error_msg, text, s3_url, response,
                   s3_objects, warnings>>

\* UploadToS3 that tries again after a failed upload.
UploadToS3_retrying ==
    /\ pc = "upload_to_s3"
    /\ calls' = Append(calls, "upload")
    /\ \E outcome \in UploadOutcomes :
         LET r == upload_to_s3(image_path, aws_request_id, bucket_name,
                               region_name, s3_objects, outcome) IN
         /\ s3_objects' = r.objects
         /\ IF r.raised
            THEN pc' = "upload_to_s3" /\ UNCHANGED s3_url
            ELSE s3_url' = r.url /\ pc' = "success"
    /\ UNCHANGED <<inputs, body, is_valid, error_msg, text, image_path, response,
                   exc, files, warnings>>

\* s3_url = upload_to_s3(image_path, context.aws_request_id)
UploadToS3 ==
    /\ pc = "upload_to_s3"
    /\ calls' = Append(calls, "upload")
    /\ \E outcome \in UploadOutcomes :
         LET r == upload_to_s3(image_path, aws_request_id, bucket_name,
                               region_name, s3_objects, outcome) IN
         /\ s3_objects' = r.objects
         /\ IF r.raised
            THEN Raise(r.exc) /\ UNCHANGED s3_url
            ELSE s3_url' = r.url /\ pc' = "success" /\ UNCHANGED exc
    /\ UNCHANGED <<inputs, body, is_valid, error_msg, text, image_path, response,
                   files, warnings>>

\* The 200 response of a completed pipeline.
Success ==
    /\ pc = "success"
    /\ Return(success_response(s3_url, aws_request_id, text))
    /\ UNCHANGED <<inputs, body, is_valid, error_msg, text, image_path, s3_url,
                   exc, files, s3_objects, calls, warnings>>

\* except ValueError / except Exception
Except ==
    /\ pc = "except"
    /\ Return(except_response(exc, aws_request_id))
    /\ UNCHANGED <<inputs, body, is_valid, error_msg, text, image_path, s3_url,
                   exc, files, s3_objects, calls, warnings>>

\* finally: if image_path: cleanup_temp_file(image_path); then the return.
\* An exception leaving the finally clause would replace the response.
Finally ==
    /\ pc = "finally"
    /\ pc' = "done"
    /\ IF image_path # NoneStr
       THEN \E remove_fails \in BOOLEAN :
              LET r == cleanup_temp_file(image_path, files, remove_fails) IN
              /\ files' = r.files
              /\ warnings' = warnings + (IF r.warned THEN 1 ELSE 0)
              /\ response' = IF r.raised THEN NoResponse ELSE response
       ELSE UNCHANGED <<files, warnings, response>>
    /\ UNCHANGED <<inputs, body, is_valid, error_msg, text, image_path, s3_url,
                   exc, s3_objects, calls>>

Next ==
    \/ ValidateEnvironment
    \/ Preflight
    \/ ParseBody
    \/ ValidateInput
    \/ GenerateWordcloud
    \/ UploadToS3
    \/ Success
    \/ Except
    \/ Finally

Spec == Init /\ [][Next]_vars

\* The handler called with any object as its context.
SpecAnyContext == InitAnyContext /\ [][Next]_vars

\* ------------------------------------------------------------- the claims
Returned == pc = "done"
Configured == bucket_name # NoneStr /\ bucket_name # ""
IsOptions == event.httpMethod = "OPTIONS"
Invoked(f) == \E i \in 1..Len(calls) : calls[i] = f
Members == response.body.members
ErrorBody(msg) == << <<"error", msg>> >>

\* The value the body denotes: the body itself, or what its JSON text decodes to.
DecodedBody ==
    IF event.body.type = "str"
    THEN (IF event.body.doc.ok THEN event.body.doc.value ELSE Unbound)
    ELSE event.body

\* The request carries a 'text' that is a str.
HasTextStr ==
    /\ DecodedBody.type = "dict"
    /\ dict_get(DecodedBody, "text", PyStr(<<>>)).type = "str"

\* The text of the request, trimmed.
TrimmedText == str_strip(dict_get(DecodedBody, "text", PyStr(<<>>)).runs)

\* The text passes every validation rule.
GoodText(t) == str_len(t) >= 10 /\ str_len(t) <= 50000 /\ any_isalpha(t)

\* The whitespace-delimited tokens of t, counted by where each one starts.
TokenCount(t) ==
    Cardinality({i \in 1..Len(t) :
        t[i].cls # "space" /\ (i = 1 \/ t[i - 1].cls = "space")})

\* C1: when the handler has returned, no temporary image file of the
\* invocation exists, whatever the outcome was (a deletion the operating
\* system refused aside).
C1_NoTempFileAfterReturn == (Returned /\ warnings = 0) => files = {}

\* C2 as stated: every OPTIONS request is answered with status 200, whatever
\* the body and whether BUCKET_NAME is set or not, and neither
\* generate_wordcloud nor upload_to_s3 is invoked.
C2_OptionsAlways200 ==
    (Returned /\ IsOptions) =>
        /\ response.statusCode = 200
        /\ ~Invoked("render") /\ ~Invoked("upload")

\* C2 as amended: every OPTIONS request is answered with status 200 when
\* BUCKET_NAME is configured and with status 500 'Service configuration
\* error' when it is not, whatever the body; in both cases neither
\* generate_wordcloud nor upload_to_s3 is invoked.
C2_OptionsAnswer ==
    IsOptions =>
        /\ ~Invoked("render") /\ ~Invoked("upload")
        /\ Returned =>
             IF Configured
             THEN /\ response.statusCode = 200
                  /\ Members = << <<"message", "CORS preflight">> >>
             ELSE /\ response.statusCode = 500
                  /\ Members = ErrorBody("Service configuration error")

C2_Witness ==
    /\ Returned /\ IsOptions /\ Configured
    /\ ~has_body(event)
    /\ response.statusCode = 200

\* C3 as stated: every event without a 'body' field is answered with status
\* 400 'Missing body in request', whatever its httpMethod and the
\* configuration.
C3_MissingBodyAlways400 ==
    (Returned /\ ~has_body(event)) =>
        /\ response.statusCode = 400
        /\ Members = ErrorBody("Missing body in request")

\* C3 as amended: with BUCKET_NAME configured and an httpMethod other than
\* OPTIONS, every event without a 'body' field is answered with status 400
\* 'Missing body in request'.
C3_MissingBody400 ==
    (Returned /\ ~has_body(event) /\ Configured /\ ~IsOptions) =>
        /\ response.statusCode = 400
        /\ Members = ErrorBody("Missing body in request")

C3_Witness ==
    /\ Returned /\ ~has_body(event) /\ Configured
    /\ event.httpMethod = "POST"
    /\ response.statusCode = 400

\* C4: with BUCKET_NAME configured, a request that is not OPTIONS and has a
\* body, every input failure (malformed JSON, a body that is not a key-value
\* object, a 'text' that is not a string, a text failing a validation rule)
\* is answered with status 400 and an error body, never 500.
C4_InputFailureIs400 ==
    (/\ Returned /\ Configured /\ ~IsOptions /\ has_body(event)
     /\ ~(HasTextStr /\ GoodText(TrimmedText))) =>
        /\ response.statusCode = 400
        /\ Len(Members) = 1 /\ Members[1][1] = "error"

\* C5: validate_input decides on the trimmed text t by the first rule that
\* applies: t empty -> EmptyInput; length(t) < 10 -> TooShort;
\* length(t) > 50000 -> TooLong; no alphabetic character ->
\* NoAlphabeticContent; otherwise success returning exactly t. Every failure
\* returns an empty cleaned text.
C5_ValidateInputRules ==
    (Invoked("validate") /\ HasTextStr) =>
        LET t == TrimmedText
            n == str_len(t)
            result == <<is_valid, error_msg, text>>
        IN  /\ (n = 0) => result = <<FALSE, EmptyMsg, <<>> >>
            /\ (n > 0 /\ n < 10) => result = <<FALSE, TooShortMsg, <<>> >>
            /\ (n > 50000) => result = <<FALSE, TooLongMsg, <<>> >>
            /\ (n >= 10 /\ n <= 50000 /\ ~any_isalpha(t)) =>
                   result = <<FALSE, NoAlphaMsg, <<>> >>
            /\ (n >= 10 /\ n <= 50000 /\ any_isalpha(t)) =>
                   result = <<TRUE, "", t>>
            /\ TooShortMsg = "Text must be at least 10 characters long"
            /\ TooLongMsg = "Text cannot exceed 50000 characters"

\* A text of exactly 10 characters once its surrounding whitespace is
\* removed was accepted.
C5_Witness ==
    /\ Invoked("validate") /\ HasTextStr
    /\ is_valid
    /\ str_len(text) = 10
    /\ text # dict_get(DecodedBody, "text", PyStr(<<>>)).runs

\* C6: when BUCKET_NAME is not configured, every invocation returns status
\* 500 with the error 'Service configuration error', and the text of the
\* internal exception appears nowhere in the response.
C6_MissingBucketIs500 ==
    (Returned /\ ~Configured) =>
        /\ response.statusCode = 500
        /\ Members = ErrorBody("Service configuration error")
        /\ \A i \in 1..Len(Members) :
               Members[i][2] # "BUCKET_NAME environment variable is required"

C6_Witness ==
    /\ Returned /\ bucket_name = NoneStr
    /\ IsOptions
    /\ response.statusCode = 500

\* C7: with BUCKET_NAME configured and a valid text, every failure of
\* generate_wordcloud, whatever the exception type, and every failure of
\* upload_to_s3 is answered with status 500 and the body
\* {error: 'Internal server error', request_id: <the request id>}.
C7_PipelineFailureIsInternalError ==
    (Returned /\ Invoked("render") /\ exc # NoExc) =>
        /\ response.statusCode = 500
        /\ Members = << <<"error", "Internal server error">>,
                        <<"request_id", aws_request_id>> >>

\* C8: every 200 response to a request that is not OPTIONS carries
\* word_count = the number of whitespace-delimited tokens of the trimmed
\* text, request_id = the invocation's request id and image_url =
\* https://<bucket>.s3.<region>.amazonaws.com/wordclouds/wordcloud_<request_id>.png
\* (region: the client's, us-east-1 when it has none), and the bucket
\* holds an object under that key.
C8_SuccessBody ==
    (response.statusCode = 200 /\ ~IsOptions) =>
        LET region == IF region_name = NoneStr THEN "us-east-1" ELSE region_name
            key == "wordclouds/wordcloud_" \o aws_request_id \o ".png"
        IN  /\ Members =
                << <<"image_url",
                     "https://" \o bucket_name \o ".s3." \o region
                         \o ".amazonaws.com/" \o key>>,
                   <<"request_id", aws_request_id>>,
                   <<"word_count", TokenCount(TrimmedText)>> >>
            /\ key \in s3_objects

C8_Witness ==
    /\ Returned /\ response.statusCode = 200 /\ ~IsOptions
    /\ region_name = "eu-west-1"
    /\ Members[3] = <<"word_count", 2>>

\* C9: for every event, context and outcome of the external calls, an
\* exception that was raised does not leave the handler (the handler has a
\* next step until it returns), what the handler returns is an envelope with
\* statusCode in {200, 400, 500}, and the cleanup, failing or not, leaves
\* the response chosen before it as it is.
C9_AlwaysAnEnvelope ==
    /\ []((exc # NoExc /\ ~Returned) => ENABLED Next)
    /\ [][pc' = "done" =>
            /\ response'.statusCode \in {200, 400, 500}
            /\ response' = response]_vars

\* The deletion of the temporary file failed and the 200 response stood.
C9_Witness ==
    /\ Returned /\ warnings > 0 /\ files # {}
    /\ aws_request_id # NoneStr
    /\ response.statusCode = 200

\* C10: the stages run in the order parse, validate, render, upload, each at
\* most once; render only after a successful validation, upload only after
\* generate_wordcloud returned a path; once a stage has failed (an
\* exception is raised or an error response is chosen) no stage is invoked.
C10_StageOrder ==
    /\ [](/\ \E k \in 0..4 : calls = SubSeq(<<"parse", "validate", "render", "upload">>, 1, k)
          /\ Invoked("render") => is_valid
          /\ Invoked("upload") => image_path # NoneStr)
    /\ [][(exc # NoExc \/ response.statusCode \in {400, 500}) => calls' = calls]_vars

\* An upload failed after all four stages ran once, and the 500 followed.
C10_Witness ==
    /\ Returned
    /\ calls = <<"parse", "validate", "render", "upload">>
    /\ exc # NoExc
    /\ response.statusCode = 500
====
